---------------------------- MODULE Spec2Model ----------------------------
(***************************************************************************)
(* Model of the gmeet Cloudflare worker (src/src/index.ts): the fetch      *)
(* handler with its two routes, the token issuance it awaits, and the      *)
(* availability computation (buildDateSlots and the conflict filter).      *)
(*                                                                         *)
(* Time is counted in minutes.  An instant is a number of minutes since    *)
(* 00:00 UTC of day 0 of a small calendar of NumDays days.  The worker     *)
(* runtime's local time zone is UTC, so the "local" fields of a JS Date    *)
(* (getFullYear, getHours, ...) are its UTC fields.                        *)
(*                                                                         *)
(* A JS Date is a record [ok, t]: ok = FALSE is an Invalid Date (NaN).     *)
(* An "HH:mm" string is the pair <<HH, mm>> of its two numeric fields      *)
(* (slice(0,2) and slice(3,5)); the empty or missing string is <<>>.       *)
(***************************************************************************)
EXTENDS Integers, Sequences, FiniteSets, TLC

(* ------------------------------ bounds --------------------------------- *)

\* Concurrent inbound requests.
NumRequests == 2

\* Days of the calendar: day 0 is standard time, day 1 is the day summer
\* time starts, day 2 is summer time, day 3 is the day summer time ends.
NumDays == 4

\* Longest events list the calendar service returns.
MaxEvents == 2

(* ----------------------------- constants ------------------------------- *)

\* add(dayDate, { days: 1 }): one day, in minutes.
DayMinutes == 1440

\* add(slot, { minutes: 20 }): the slot length used by the overlap check.
SlotMinutes == 20

\* const availableSlots = ["08:00", "08:20", "08:40", "09:00", "09:20", "09:40"]
availableSlots ==
    << <<8, 0>>, <<8, 20>>, <<8, 40>>, <<9, 0>>, <<9, 20>>, <<9, 40>> >>

Days == 0 .. (NumDays - 1)

(* ------------------------------ JS Date -------------------------------- *)

Valid(t) == [ok |-> TRUE, t |-> t]

InvalidDate == [ok |-> FALSE, t |-> 0]

\* new Date(year, month, date, hours, minutes) in the runtime's zone (UTC).
NewDateLocal(day, hh, mm) == Valid(day * DayMinutes + hh * 60 + mm)

\* Faulty variant of NewDateField: an absent field read as the epoch.
NewDateFieldEpoch(field) ==
    IF field.present THEN Valid(field.at) ELSE Valid(0)

\* new Date(event.start?.dateTime || ''): an absent dateTime gives
\* new Date(''), an Invalid Date.
NewDateField(field) ==
    IF field.present THEN Valid(field.at) ELSE InvalidDate

\* add(date, { minutes: n }) of date-fns; an Invalid Date stays invalid.
add(date, minutes) ==
    IF date.ok THEN Valid(date.t + minutes) ELSE InvalidDate

\* Faulty variant of isBefore: a non-strict comparison.
isBeforeOrEqual(date, dateToCompare) ==
    date.ok /\ dateToCompare.ok /\ date.t <= dateToCompare.t

\* isBefore of date-fns: +date < +dateToCompare, false when either is NaN.
isBefore(date, dateToCompare) ==
    date.ok /\ dateToCompare.ok /\ date.t < dateToCompare.t

\* Faulty variant of isAfter: a non-strict comparison.
isAfterOrEqual(date, dateToCompare) ==
    date.ok /\ dateToCompare.ok /\ date.t >= dateToCompare.t

\* isAfter of date-fns: +date > +dateToCompare, false when either is NaN.
isAfter(date, dateToCompare) ==
    date.ok /\ dateToCompare.ok /\ date.t > dateToCompare.t

(* --------------------------- Europe/Paris ------------------------------ *)

\* The zone's transitions, both at 01:00 UTC: summer time starts on day 1
\* and ends on day 3.
DstStart == 1 * DayMinutes + 60
DstEnd == 3 * DayMinutes + 60

\* The zone's offset from UTC, in minutes, at the UTC instant t (what
\* date-fns-tz reads from Intl.DateTimeFormat for 'Europe/Paris').
calcOffset(t) == IF DstStart <= t /\ t < DstEnd THEN 120 ELSE 60

Max(a, b) == IF a >= b THEN a ELSE b

\* fixOffset of date-fns-tz: the offset that applies to a wall-clock
\* reading localTS, found from a first guess in at most two corrections.
fixOffset(localTS, offset) ==
    LET utcGuess == localTS - offset
        o2 == calcOffset(utcGuess)
        utcGuess2 == utcGuess - (o2 - offset)
        o3 == calcOffset(utcGuess2)
    IN  IF offset = o2 THEN offset
        ELSE IF o2 = o3 THEN o2
        ELSE Max(o2, o3)

\* Faulty variant of fromZonedTime: the standard-time offset whatever the date.
fromZonedTimeNoDst(date) ==
    IF date.ok THEN Valid(date.t - 60) ELSE InvalidDate

\* fromZonedTime(date, 'Europe/Paris'): the local fields of date read as a
\* wall-clock time of the zone, converted to the instant.
fromZonedTime(date) ==
    IF date.ok
    THEN Valid(date.t - fixOffset(date.t, calcOffset(date.t)))
    ELSE InvalidDate

\* toZonedTime(date, 'Europe/Paris'): a Date whose local fields are the
\* zone's wall-clock reading of the instant.
toZonedTime(date) ==
    IF date.ok THEN Valid(date.t + calcOffset(date.t)) ELSE InvalidDate

\* format(date, 'HH:mm'): the local hour and minute fields.
formatHHmm(date) == << (date.t % DayMinutes) \div 60, date.t % 60 >>

\* format(date, 'yyyyMMdd'): the local day of the date.
formatyyyyMMdd(date) == date.t \div DayMinutes

\* parse(dateString, 'yyyyMMdd', new Date()): local midnight of that day.
parseyyyyMMdd(dateString) == NewDateLocal(dateString, 0, 0)

\* parse(`${dateString} ${timeString}`, 'dd/MM/yyyy HH:mm', new Date()):
\* an Invalid Date unless the day exists and the time is HH:mm in range.
parseddMMyyyyHHmm(dateString, timeString) ==
    IF /\ dateString.ok
       /\ Len(timeString) = 2
       /\ timeString[1] \in 0 .. 23
       /\ timeString[2] \in 0 .. 59
    THEN NewDateLocal(dateString.day, timeString[1], timeString[2])
    ELSE InvalidDate

(* ------------------------- availability engine ------------------------- *)

\* buildDateSlots(date): each slot string on date's day, as an instant.
buildDateSlots(date) ==
    [i \in 1 .. Len(availableSlots) |->
        fromZonedTime(NewDateLocal(formatyyyyMMdd(date),
                                   availableSlots[i][1],
                                   availableSlots[i][2]))]

\* events.some(event => isBefore(slot, eventEnd) && isAfter(slotEnd, eventStart))
hasConflict(slot, events) ==
    LET slotEnd == add(slot, SlotMinutes)
    IN  \E k \in 1 .. Len(events) :
            LET eventStart == NewDateField(events[k].start)
                eventEnd == NewDateField(events[k].end)
            IN  isBefore(slot, eventEnd) /\ isAfter(slotEnd, eventStart)

\* dateSlots.filter(slot => !hasConflict): the slots without a conflict,
\* in the order of dateSlots.
RECURSIVE freeSlots(_, _)
freeSlots(dateSlots, events) ==
    IF dateSlots = << >> THEN << >>
    ELSE IF ~hasConflict(Head(dateSlots), events)
         THEN << Head(dateSlots) >> \o freeSlots(Tail(dateSlots), events)
         ELSE freeSlots(Tail(dateSlots), events)

\* slots.map(slot => format(toZonedTime(slot, 'Europe/Paris'), 'HH:mm'))
formatSlots(slots) ==
    [i \in 1 .. Len(slots) |-> formatHHmm(toZonedTime(slots[i]))]

(* ------------------------------- inputs -------------------------------- *)

Requests == 1 .. NumRequests

\* The instant at which the zone's wall clock reads hh:mm on the given day.
CivilInstant(day, hhmm) ==
    LET civil == day * DayMinutes + hhmm[1] * 60 + hhmm[2]
    IN  CHOOSE t \in { civil - 120, civil - 60 } : t + calcOffset(t) = civil

\* A dateTime field of a calendar event: present with its instant, or absent
\* (an all-day event carries start.date and no start.dateTime).
Present(t) == [present |-> TRUE, at |-> t]
Absent == [present |-> FALSE, at |-> 0]

\* Wall-clock times of event boundaries: the slot boundaries, one time
\* before the first slot and one time inside it.
FineTimes ==
    { <<7, 40>>, <<8, 0>>, <<8, 10>>, <<8, 20>>, <<8, 40>>, <<9, 0>>,
      <<9, 20>>, <<9, 40>>, <<10, 0>> }

CoarseTimes == { <<8, 0>>, <<8, 20>> }

\* The events of a day with boundaries at the given wall-clock times; an
\* event whose two fields are present does not end before it starts.
Events(day, times) ==
    LET fields == { Present(CivilInstant(day, tm)) : tm \in times } \cup { Absent }
    IN  { e \in [start : fields, end : fields] :
            (e.start.present /\ e.end.present) => e.start.at <= e.end.at }

\* orderBy: 'startTime' -- the key the service orders the items by.
StartKey(e) == IF e.start.present THEN e.start.at ELSE 0

\* The items of a list response: at most longest events, by start time.
EventLists(day, times, longest) ==
    { l \in UNION { [1 .. n -> Events(day, times)] : n \in 0 .. longest } :
        \A i \in 1 .. (Len(l) - 1) : StartKey(l[i]) <= StartKey(l[i + 1]) }

SlotsPath == "/gmeet-api/available-slots"
MeetingPath == "/gmeet-api/create-meeting"

\* A `selectedDate` form field: a day of the calendar, or a string that is
\* no dd/MM/yyyy date (or is missing).
DayString(day) == [ok |-> TRUE, day |-> day]
BadDayString == [ok |-> FALSE, day |-> 0]

NoRequest ==
    [method |-> "none", path |-> "none", date |-> InvalidDate,
     selectedDate |-> BadDayString, timetable |-> << >>]

\* The inbound requests about the given days.  The `date` query parameter
\* is given as the Date that new Date(string) makes of it: midnight UTC of
\* a day, 23:30 UTC of day 1, or an Invalid Date.
Inputs(days) ==
    LET dates == { Valid(d * DayMinutes) : d \in days }
                    \cup { Valid(d * DayMinutes + 1410) : d \in days \cap {1} }
                    \cup { InvalidDate }
        selected == { DayString(d) : d \in days } \cup { BadDayString }
        times == { << >>, <<8, 0>>, <<10, 0>>, <<99, 99>> }
    IN  { [NoRequest EXCEPT !.method = "OPTIONS", !.path = SlotsPath] }
        \cup { [NoRequest EXCEPT !.method = "GET", !.path = "/"] }
        \cup { [NoRequest EXCEPT !.method = "GET", !.path = SlotsPath,
                                 !.date = d] : d \in dates }
        \cup { [NoRequest EXCEPT !.method = "POST", !.path = MeetingPath,
                                 !.selectedDate = sd, !.timetable = tt] :
                    sd \in selected, tt \in times }

FineInputs == Inputs(Days)

CoarseInputs == Inputs({1})

(* ------------------------------- state --------------------------------- *)

VARIABLES
    keyValid,       \* env.GOOGLE_PRIVATE_KEY decodes and imports as a key
    issued,         \* number of tokens the OAuth endpoint has granted
    owner,          \* owner[n]: the request token n was granted to
    pc,             \* where each request's handler is
    req,            \* the inbound request
    authToken,      \* the handler's authToken
    inflight,       \* the handler's outbound calls awaiting their response
    issuances,      \* calls of initGoogleCalendar made by the handler
    oauthCalls,     \* POSTs to the OAuth token endpoint
    calendarCalls,  \* calls to the calendar service
    bearer,         \* the token in the calendar call's Authorization header
    upstream,       \* the calendar service's answer
    items,          \* the events of a list answer
    dayDate,        \* the handler's dayDate
    dateSlots,      \* the handler's dateSlots
    event,          \* the event a create-meeting handler built
    response        \* the Response returned

vars ==
    << keyValid, issued, owner, pc, req, authToken, inflight, issuances,
       oauthCalls, calendarCalls, bearer, upstream, items, dayDate,
       dateSlots, event, response >>

\* The value of getGoogleAuthToken when its catch block ran, or when the
\* OAuth answer has no access_token: undefined.
Undefined == 0

NoUpstream == [status |-> 0, body |-> "none"]

NoEvent == [start |-> InvalidDate, end |-> InvalidDate]

NoResponse ==
    [status |-> 0, body |-> "none", availableSlots |-> << >>,
     data |-> NoUpstream]

Init ==
    /\ keyValid \in BOOLEAN
    /\ issued = 0
    /\ owner = << >>
    /\ pc = [r \in Requests |-> "idle"]
    /\ req = [r \in Requests |-> NoRequest]
    /\ authToken = [r \in Requests |-> Undefined]
    /\ inflight = [r \in Requests |-> {}]
    /\ issuances = [r \in Requests |-> 0]
    /\ oauthCalls = [r \in Requests |-> 0]
    /\ calendarCalls = [r \in Requests |-> 0]
    /\ bearer = [r \in Requests |-> Undefined]
    /\ upstream = [r \in Requests |-> NoUpstream]
    /\ items = [r \in Requests |-> << >>]
    /\ dayDate = [r \in Requests |-> InvalidDate]
    /\ dateSlots = [r \in Requests |-> << >>]
    /\ event = [r \in Requests |-> NoEvent]
    /\ response = [r \in Requests |-> NoResponse]

(* ------------------------------ responses ------------------------------ *)

\* new Response(null, { headers: corsHeaders, status: 204 })
Preflight == [NoResponse EXCEPT !.status = 204, !.body = "preflight"]

\* new Response(JSON.stringify({ availableSlots }), { status: 200 })
SlotsResponse(labels) ==
    [NoResponse EXCEPT !.status = 200, !.body = "availableSlots",
                       !.availableSlots = labels]

\* { message: 'No correct time slot selected' }, status 404
NoSlotSelected ==
    [NoResponse EXCEPT !.status = 404, !.body = "No correct time slot selected"]

\* { message: 'Meeting created successfully!', data: meetingData }, status 201
MeetingCreated(meetingData) ==
    [NoResponse EXCEPT !.status = 201, !.body = "Meeting created successfully!",
                       !.data = meetingData]

\* new Response('Not Found', { status: 404 })
NotFound == [NoResponse EXCEPT !.status = 404, !.body = "Not Found"]

\* An exception left the handler: the runtime answers for it with its own
\* error page, status 500.
Uncaught == [NoResponse EXCEPT !.status = 500, !.body = "exception"]

(* ------------------------------- handler ------------------------------- *)

\* availableSlots.includes(timeString)
includes(timeString) ==
    \E i \in 1 .. Len(availableSlots) : availableSlots[i] = timeString

\* Faulty variant of invalidTimeSlot: the check on membership alone.
notIncluded(timeString) == ~includes(timeString)

\* if (!timeString && availableSlots.includes(timeString))
invalidTimeSlot(timeString) == timeString = << >> /\ includes(timeString)

\* The handler returns: its Response, and nothing of it is left running.
Return(r, resp) ==
    /\ pc' = [pc EXCEPT ![r] = "done"]
    /\ response' = [response EXCEPT ![r] = resp]

\* Faulty variant of Bearer: a token kept at module level, shared by the requests.
BearerShared(token) == IF issued > 0 THEN issued ELSE token

\* "Authorization": `Bearer ${authToken}`
Bearer(token) == token

\* fetch(...) of the calendar service starts: the handler awaits it.
CallCalendar(r, token, awaiting, at) ==
    /\ pc' = [pc EXCEPT ![r] = at]
    /\ calendarCalls' = [calendarCalls EXCEPT ![r] = @ + 1]
    /\ bearer' = [bearer EXCEPT ![r] = Bearer(token)]
    /\ inflight' = [inflight EXCEPT ![r] = awaiting \cup {"calendar"}]
    /\ UNCHANGED response

\* The handler after `await initGoogleCalendar(env)` gave it token, with
\* the calls in `awaiting` still unanswered.  available-slots: the date is
\* formatted (format throws a RangeError on an Invalid Date) and parsed,
\* then the events are listed.  create-meeting: the event is inserted.
AfterToken(r, token, awaiting) ==
    /\ authToken' = [authToken EXCEPT ![r] = token]
    /\ IF req[r].method = "GET"
       THEN IF req[r].date.ok
            THEN /\ dayDate' = [dayDate EXCEPT ![r] =
                                   parseyyyyMMdd(formatyyyyMMdd(req[r].date))]
                 /\ CallCalendar(r, token, awaiting, "list")
            ELSE /\ Return(r, Uncaught)
                 /\ inflight' = [inflight EXCEPT ![r] = awaiting]
                 /\ UNCHANGED << dayDate, calendarCalls, bearer >>
       ELSE /\ CallCalendar(r, token, awaiting, "insert")
            /\ UNCHANGED dayDate

\* A request arrives and the handler runs to its first await.
\* OPTIONS: 204.  GET available-slots: initGoogleCalendar is called.
\* POST create-meeting: the time slot check, then the event is built
\* (new Date(utcDate.toUTCString()) is utcDate to the minute; formatISO
\* throws a RangeError on an Invalid Date), then
\* initGoogleCalendar is called.  Anything else: 404 Not Found.
Receive(r, inputs) ==
    /\ pc[r] = "idle"
    /\ \E q \in inputs :
        /\ req' = [req EXCEPT ![r] = q]
        /\ IF q.method = "OPTIONS" THEN
              /\ Return(r, Preflight)
              /\ UNCHANGED << issuances, event >>
           ELSE IF q.method = "GET" /\ q.path = SlotsPath THEN
              /\ pc' = [pc EXCEPT ![r] = "auth"]
              /\ issuances' = [issuances EXCEPT ![r] = @ + 1]
              /\ UNCHANGED << response, event >>
           ELSE IF q.method = "POST" /\ q.path = MeetingPath THEN
              IF invalidTimeSlot(q.timetable) THEN
                 /\ Return(r, NoSlotSelected)
                 /\ UNCHANGED << issuances, event >>
              ELSE
                 LET cetDateTime == parseddMMyyyyHHmm(q.selectedDate, q.timetable)
                     utcDate == fromZonedTime(cetDateTime)
                     startDateTime == utcDate
                     endDateTime == add(startDateTime, SlotMinutes)
                 IN  IF startDateTime.ok THEN
                        /\ event' = [event EXCEPT ![r] =
                                        [start |-> startDateTime,
                                         end |-> endDateTime]]
                        /\ pc' = [pc EXCEPT ![r] = "auth"]
                        /\ issuances' = [issuances EXCEPT ![r] = @ + 1]
                        /\ UNCHANGED response
                     ELSE
                        /\ Return(r, Uncaught)
                        /\ UNCHANGED << issuances, event >>
           ELSE
              /\ Return(r, NotFound)
              /\ UNCHANGED << issuances, event >>
    /\ UNCHANGED << keyValid, issued, owner, authToken, inflight, oauthCalls,
                    calendarCalls, bearer, upstream, items, dayDate, dateSlots >>

\* Faulty variant of SignAssertion: initGoogleCalendar is not awaited, and the
\* calendar call starts while the token request is unanswered.
SignAssertionNoAwait(r) ==
    /\ pc[r] = "auth"
    /\ oauthCalls' = [oauthCalls EXCEPT ![r] = @ + 1]
    /\ AfterToken(r, Undefined, {"token"})
    /\ UNCHANGED << keyValid, issued, owner, req, issuances, upstream, items,
                    dateSlots, event >>

\* getGoogleAuthToken up to its fetch: the assertion is signed with the
\* private key.  A key that does not decode or import makes sign throw;
\* the catch block logs it and the function returns undefined, without a
\* call to the OAuth endpoint.  Otherwise the assertion is posted.
SignAssertion(r) ==
    /\ pc[r] = "auth"
    /\ IF keyValid
       THEN /\ pc' = [pc EXCEPT ![r] = "oauth"]
            /\ oauthCalls' = [oauthCalls EXCEPT ![r] = @ + 1]
            /\ inflight' = [inflight EXCEPT ![r] = @ \cup {"token"}]
            /\ UNCHANGED << authToken, calendarCalls, bearer, dayDate, response >>
       ELSE /\ AfterToken(r, Undefined, inflight[r])
            /\ UNCHANGED oauthCalls
    /\ UNCHANGED << keyValid, issued, owner, req, issuances, upstream, items,
                    dateSlots, event >>

\* The OAuth endpoint answers.  granted: a JSON body with a fresh
\* access_token.  denied: a JSON body without one (oauth.access_token is
\* undefined).  failed: the fetch rejects or the body is no JSON (caught,
\* the function returns undefined).
OAuthReturn(r) ==
    /\ pc[r] = "oauth"
    /\ \E outcome \in {"granted", "denied", "failed"} :
        IF outcome = "granted"
        THEN /\ issued' = issued + 1
             /\ owner' = Append(owner, r)
             /\ AfterToken(r, issued + 1, inflight[r] \ {"token"})
        ELSE /\ AfterToken(r, Undefined, inflight[r] \ {"token"})
             /\ UNCHANGED << issued, owner >>
    /\ UNCHANGED << keyValid, req, issuances, oauthCalls, upstream, items,
                    dateSlots, event >>

\* The answers the calendar service gives to a call made with this token:
\* without a granted token it is 401; with one it is the success status or
\* 403.  The body is JSON, or (malformed) something response.json() rejects.
Answers(token, success) ==
    LET statuses == IF token = Undefined THEN {401} ELSE {success, 403}
    IN  { [status |-> st, body |-> IF st = success THEN "resource" ELSE "error"] :
            st \in statuses }
        \cup { [status |-> st, body |-> "malformed"] : st \in statuses }

\* The events list call answers; the handler computes the free slots and
\* returns them with status 200.  `times` are the wall-clock times at which
\* the listed events may start and end, `longest` the most events listed.
ListReturn(r, times, longest) ==
    /\ pc[r] = "list"
    /\ \E answer \in Answers(bearer[r], 200) :
        /\ upstream' = [upstream EXCEPT ![r] = answer]
        /\ inflight' = [inflight EXCEPT ![r] = @ \ {"calendar"}]
        /\ IF answer.body = "malformed"
           THEN /\ Return(r, Uncaught)
                /\ UNCHANGED << items, dateSlots >>
           ELSE \E listed \in IF answer.status = 200
                              THEN EventLists(formatyyyyMMdd(dayDate[r]), times,
                                              longest)
                              ELSE { << >> } :
                    LET events == listed
                        slots == freeSlots(buildDateSlots(dayDate[r]), events)
                    IN  /\ items' = [items EXCEPT ![r] = listed]
                        /\ dateSlots' = [dateSlots EXCEPT ![r] =
                                            buildDateSlots(dayDate[r])]
                        /\ Return(r, SlotsResponse(formatSlots(slots)))
    /\ UNCHANGED << keyValid, issued, owner, req, authToken, issuances,
                    oauthCalls, calendarCalls, bearer, dayDate, event >>

\* The events insert call answers; the handler returns its body as `data`
\* with status 201.
InsertReturn(r) ==
    /\ pc[r] = "insert"
    /\ \E answer \in Answers(bearer[r], 200) :
        /\ upstream' = [upstream EXCEPT ![r] = answer]
        /\ inflight' = [inflight EXCEPT ![r] = @ \ {"calendar"}]
        /\ IF answer.body = "malformed"
           THEN Return(r, Uncaught)
           ELSE Return(r, MeetingCreated(answer))
    /\ UNCHANGED << keyValid, issued, owner, req, authToken, issuances,
                    oauthCalls, calendarCalls, bearer, items, dayDate,
                    dateSlots, event >>

(* ---------------------------- specifications --------------------------- *)

\* Requests handled concurrently: the handlers interleave at their awaits.
Next ==
    \E r \in Requests :
        \/ Receive(r, CoarseInputs)
        \/ SignAssertion(r)
        \/ OAuthReturn(r)
        \/ ListReturn(r, CoarseTimes, 1)
        \/ InsertReturn(r)

Spec == Init /\ [][Next]_vars

\* One request, over every day of the calendar and the fine event times.
NextOne ==
    \/ Receive(1, FineInputs)
    \/ SignAssertion(1)
    \/ OAuthReturn(1)
    \/ ListReturn(1, FineTimes, MaxEvents)
    \/ InsertReturn(1)

SpecOne == Init /\ [][NextOne]_vars

(* ------------------------------- claims -------------------------------- *)

\* The request was answered with the available-slots body.
SlotsAnswered(r) == pc[r] = "done" /\ response[r].body = "availableSlots"

\* The day the `date` parameter of request r falls on.
DayOf(r) == req[r].date.t \div DayMinutes

\* The candidate slots' wall-clock times, in minutes after midnight:
\* 08:00, 08:20, 08:40, 09:00, 09:20, 09:40.
CandidateMinutes == << 480, 500, 520, 540, 560, 580 >>

\* The instant at which candidate i starts on the given day.
SlotStart(day, i) == CivilInstant(day, availableSlots[i])

\* slot_start < event_end AND slot_start + 20 minutes > event_start
Overlaps(slotStart, e) ==
    /\ e.start.present
    /\ e.end.present
    /\ slotStart < e.end.at
    /\ slotStart + 20 > e.start.at

\* The candidates, in their order, that overlap no event of the list.
NonOverlapping(day, events) ==
    LET starts == [i \in 1 .. 6 |-> SlotStart(day, i)]
        Free(i) == \A k \in 1 .. Len(events) : ~Overlaps(starts[i], events[k])
        kept == SelectSeq(<< 1, 2, 3, 4, 5, 6 >>, Free)
    IN  [j \in 1 .. Len(kept) |-> availableSlots[kept[j]]]

\* C1: the available-slots result holds a candidate slot if and only if no
\* listed event satisfies slot_start < event_end and slot_start + 20 min >
\* event_start, and it lists the kept candidates in the candidates' order.
C1_AvailableIffNoOverlap ==
    \A r \in Requests :
        SlotsAnswered(r) =>
            response[r].availableSlots = NonOverlapping(DayOf(r), items[r])

\* C1 witness: on the day summer time starts, two events were listed and
\* some candidates, not all, were returned.
C1_Witness ==
    /\ SlotsAnswered(1)
    /\ DayOf(1) = 1
    /\ Len(items[1]) = 2
    /\ Len(response[1].availableSlots) \in 2 .. 4

\* C2: buildDateSlots gives exactly six slots, in strictly ascending order,
\* the i-th of them the instant at which the Paris wall clock reads the i-th
\* of 08:00, 08:20, 08:40, 09:00, 09:20, 09:40 on the requested day.
C2_SixSlotsAtCivilTimes ==
    \A r \in Requests :
        SlotsAnswered(r) =>
            /\ Len(dateSlots[r]) = 6
            /\ \A i \in 1 .. 6 :
                /\ dateSlots[r][i].ok
                /\ dateSlots[r][i].t + calcOffset(dateSlots[r][i].t)
                      = DayOf(r) * DayMinutes + CandidateMinutes[i]
            /\ \A i \in 1 .. 5 : dateSlots[r][i].t < dateSlots[r][i + 1].t

\* C2 witness: the slots of the day summer time starts were built, the
\* first of them at 06:00 UTC (08:00 at UTC+2).
C2_Witness ==
    /\ SlotsAnswered(1)
    /\ DayOf(1) = 1
    /\ Len(dateSlots[1]) = 6
    /\ dateSlots[1][1] = Valid(1 * DayMinutes + 360)

\* The one event that is exactly candidate i's [start, start + 20 min).
ExactlySlot(day, i) ==
    [start |-> Present(SlotStart(day, i)),
     end |-> Present(SlotStart(day, i) + 20)]

\* The candidates without the i-th.
AllBut(i) == [j \in 1 .. 5 |-> availableSlots[IF j < i THEN j ELSE j + 1]]

\* C3: when the only listed event is exactly one candidate's [start,
\* start + 20 min), the result is the five other candidates.
C3_ExactBusySlotExcluded ==
    \A r \in Requests : \A i \in 1 .. 6 :
        (SlotsAnswered(r) /\ Len(items[r]) = 1
           /\ items[r][1] = ExactlySlot(DayOf(r), i))
            => response[r].availableSlots = AllBut(i)

\* C3 witness: the only listed event is exactly the 08:40 slot, whose two
\* neighbours touch it, and a result was returned.
C3_Witness ==
    /\ SlotsAnswered(1)
    /\ items[1] = << ExactlySlot(DayOf(1), 3) >>
    /\ Len(response[1].availableSlots) = 5

\* The request is a create-meeting POST.
IsCreateMeeting(r) == req[r].method = "POST" /\ req[r].path = MeetingPath

\* The request is an available-slots GET.
IsAvailableSlots(r) == req[r].method = "GET" /\ req[r].path = SlotsPath

\* The six candidate strings.
CandidateStrings ==
    { <<8, 0>>, <<8, 20>>, <<8, 40>>, <<9, 0>>, <<9, 20>>, <<9, 40>> }

\* C4 (as claimed): a create-meeting request whose timetable is missing or
\* no candidate string is answered 404 'No correct time slot selected', and
\* makes neither a token issuance nor a calendar call.
C4_BadTimeSlotRejected ==
    \A r \in Requests :
        (IsCreateMeeting(r) /\ req[r].timetable \notin CandidateStrings) =>
            /\ issuances[r] = 0
            /\ oauthCalls[r] = 0
            /\ calendarCalls[r] = 0
            /\ pc[r] = "done" => response[r] = NoSlotSelected

\* The request's date or time string is invalid.
BadDateOrTime(r) ==
    \/ IsAvailableSlots(r) /\ ~req[r].date.ok
    \/ IsCreateMeeting(r) /\ ~req[r].selectedDate.ok
    \/ IsCreateMeeting(r) /\ req[r].timetable \in { << >>, <<99, 99>> }

\* C5 (as claimed): a request with an invalid date or time string is
\* answered with a 4xx status, and no calendar call is made for it.
C5_BadDateRejected4xx ==
    \A r \in Requests :
        BadDateOrTime(r) =>
            /\ calendarCalls[r] = 0
            /\ pc[r] = "done" => response[r].status \in 400 .. 499

\* The token issuance of request r ended without a token.
IssuanceFailed(r) ==
    /\ issuances[r] = 1
    /\ pc[r] \in {"list", "insert", "done"}
    /\ authToken[r] = Undefined

\* C6 (as claimed): when the token issuance fails, the calendar call is not
\* made, and the request does not end in 200 with availableSlots or in 201
\* 'Meeting created successfully!'.
C6_IssuanceFailureObservable ==
    \A r \in Requests :
        IssuanceFailed(r) =>
            /\ calendarCalls[r] = 0
            /\ pc[r] = "done" => response[r].status \notin {200, 201}

\* C7: the calendar call of a request starts only once its token issuance
\* has completed, and the two outbound calls are never in flight together.
C7_TokenBeforeCalendar ==
    \A r \in Requests :
        /\ ~({"token", "calendar"} \subseteq inflight[r])
        /\ calendarCalls[r] > 0 =>
              /\ issuances[r] = 1
              /\ "token" \notin inflight[r]
              /\ pc[r] \in {"list", "insert", "done"}

\* C7 witness: a calendar call is in flight, made with the token granted
\* by the OAuth call of the same request.
C7_Witness ==
    /\ inflight[1] = {"calendar"}
    /\ oauthCalls[1] = 1
    /\ bearer[1] # Undefined

\* The response of the calendar service passed on as it came.
Passthrough(answer) ==
    [NoResponse EXCEPT !.status = answer.status, !.body = answer.body]

\* C8 (as claimed): when the calendar service answers with a non-success
\* status, the response carries the upstream body and the upstream status.
C8_UpstreamErrorPassedThrough ==
    \A r \in Requests :
        (pc[r] = "done" /\ upstream[r].status >= 300) =>
            response[r] = Passthrough(upstream[r])

\* The request is on one of the two routes and its date and time parse.
RoutedAndValid(r) ==
    \/ IsAvailableSlots(r) /\ req[r].date.ok
    \/ /\ IsCreateMeeting(r)
       /\ parseddMMyyyyHHmm(req[r].selectedDate, req[r].timetable).ok

\* C9: a request on one of the two routes whose input is valid makes exactly
\* one token issuance and one calendar call; no request repeats an outbound
\* call; and the token of a calendar call is one granted to that request.
C9_OneIssuanceOneCallOwnToken ==
    \A r \in Requests :
        /\ issuances[r] <= 1
        /\ oauthCalls[r] <= 1
        /\ calendarCalls[r] <= 1
        /\ (pc[r] = "done" /\ RoutedAndValid(r)) =>
              (issuances[r] = 1 /\ calendarCalls[r] = 1)
        /\ (calendarCalls[r] = 1 /\ bearer[r] # Undefined) =>
              (bearer[r] \in 1 .. issued /\ owner[bearer[r]] = r)

\* C9 witness: two requests are done; the first was granted a token and
\* the second, whose issuance came later, was not; each made its one call.
C9_Witness ==
    /\ pc[1] = "done"
    /\ pc[2] = "done"
    /\ calendarCalls[1] = 1
    /\ calendarCalls[2] = 1
    /\ bearer[1] = 1
    /\ bearer[2] = Undefined
    /\ oauthCalls[2] = 1

\* The event has both start.dateTime and end.dateTime.
HasBothFields(e) == e.start.present /\ e.end.present

\* What the handler returns for the slots of the day and the listed events.
SlotsFor(slots, events) == formatSlots(freeSlots(slots, events))

\* C10: events lacking start.dateTime or end.dateTime never count as a
\* conflict: the slots returned for a list are those returned for the list
\* without such events, wherever in the list they are.
C10_LackingEventNeverConflicts ==
    \A r \in Requests :
        SlotsAnswered(r) =>
            response[r].availableSlots
                = SlotsFor(buildDateSlots(dayDate[r]),
                           SelectSeq(items[r], HasBothFields))

\* C10 witness: the listed events are one without start.dateTime that ends
\* at 09:00 and one that is exactly the 08:00 slot; only that slot is
\* missing from the result.
C10_Witness ==
    /\ SlotsAnswered(1)
    /\ Len(items[1]) = 2
    /\ items[1][1] = [start |-> Absent,
                      end |-> Present(SlotStart(DayOf(1), 4))]
    /\ items[1][2] = ExactlySlot(DayOf(1), 1)
    /\ response[1].availableSlots = AllBut(1)

=============================================================================
